---- MODULE Spec2Model ----
(***************************************************************************)
(* The in-memory blob store of iroh-bytes (iroh-bytes/src/store/mem.rs).   *)
(*                                                                         *)
(* State: the four fields of StateInner (entries, tags, temp, live), the   *)
(* heap of Arc<EntryInner> values that Entry handles point to with the     *)
(* lock of each storage, the Entry, TempTag and Store values held by       *)
(* callers, the position of every thread inside an import, the export      *)
(* under way and the file it writes.  A step is what a call does between   *)
(* two points where other threads get in: an acquisition of the store's    *)
(* RwLock, one progress emission, one item of a batch, one window of an    *)
(* export.  insert_complete, delete and on_drop are also given step by     *)
(* step (call, grant of the write lock, the steps under it, return), with  *)
(* the holder of the write lock as state, and the iterators of             *)
(* ReadableStore as the clone they own.                                    *)
(***************************************************************************)
EXTENDS Integers, Sequences, FiniteSets, TLC

\* ---------------------------------------------------------------- bounds
NumThreads == 2      \* threads that run import_bytes concurrently
MaxInner == 2        \* EntryInner values alive at the same time
MaxHandles == 1      \* Entry values held by callers at the same time
MaxTempTags == 2     \* TempTag values alive at the same time
MaxTags == 3         \* tags there are when create_tag is called, plus one
MaxStores == 2       \* Store values (clones) at the same time

\* ---------------------------------------------------------------- values
\* the contents that are imported
Blobs == {<<>>, <<1, 0>>}

RECURSIVE tree_hash(_)
\* MutableMemStorage::complete computes the root hash of the content.  The
\* model's digest is an injective code of the byte string.
tree_hash(b) ==
    IF b = <<>> THEN 1
    ELSE 2 * tree_hash(SubSeq(b, 1, Len(b) - 1)) + b[Len(b)]

Hashes == {tree_hash(b) : b \in Blobs}

BlobFormat == {"Raw", "HashSeq"}

\* HashAndFormat { hash, format }
HashAndFormat == Hashes \X BlobFormat

TagNames == {"n"}

\* the values callers give to set_tag
TagValues == {<<tree_hash(<<>>), "Raw">>, <<tree_hash(<<>>), "HashSeq">>}

Threads == 1..NumThreads

\* a thread that is in no call of insert_complete or delete
NoOp ==
    [pc |-> "idle", kind |-> "none", entry |-> <<>>, hashes |-> <<>>,
     rest |-> <<>>, complete |-> FALSE]

Slots == 1..MaxInner

\* a slot of the heap that holds no EntryInner
NoInner == [hash |-> 0, data |-> <<>>]

\* the Entry values there can be
EntryValues == [inner : Slots, complete : BOOLEAN]

VARIABLES
    entries,   \* StateInner.entries : BTreeMap<Hash, Entry>
    tags,      \* StateInner.tags    : BTreeMap<Tag, HashAndFormat>
    temp,      \* StateInner.temp    : TempCounterMap
    live,      \* StateInner.live    : BTreeSet<Hash>
    inners,    \* the Arc<EntryInner> values: slot -> [hash, data]
    handles,   \* the Entry values held by callers
    held,      \* the TempTag values held by callers: key -> how many
    thr,       \* per thread: its position in import_bytes_sync
    ret,       \* the result of the call that returned last
    imp,       \* per thread: its position in import_file or import_stream
    wr,        \* per EntryInner: the write lock of data and the batch under way
    rd,        \* the bytes the read_at that returned last has given
    ex,        \* the export_sync under way, and the calls of its callback
    fs,        \* the file system under the target of export
    stores,    \* the Store values there are: the handles on the StoreInner
    lock,      \* StoreInner.0 : the thread that holds the write lock, or 0
    op,        \* per thread: its position in insert_complete or delete
    it         \* the iterator a caller holds: the items it owns, what it gave

\* what the operations on the maps of the store leave alone
ext == <<imp, wr, rd, ex, fs, stores, lock, op, it>>

vars ==
    <<entries, tags, temp, live, inners, handles, held, thr, ret, imp, wr, rd,
      ex, fs, stores, lock, op, it>>

\* ------------------------------------------------------- TempCounterMap
\* inc raises the count of k, inserting it at 1
inc(m, k) ==
    IF k \in DOMAIN m THEN [m EXCEPT ![k] = @ + 1]
    ELSE [x \in DOMAIN m \cup {k} |-> IF x = k THEN 1 ELSE m[x]]

\* dec lowers the count of k and removes the key when it reaches 0
dec(m, k) ==
    IF k \notin DOMAIN m THEN m
    ELSE IF m[k] <= 1 THEN [x \in DOMAIN m \ {k} |-> m[x]]
    ELSE [m EXCEPT ![k] = @ - 1]

\* contains(&hash): some key has this hash component
contains(m, h) == \E k \in DOMAIN m : k[1] = h

\* keys(): all the keys
keys(m) == DOMAIN m

\* ---------------------------------------------------------------- Entry
\* Entry { inner: Arc<EntryInner>, complete }
Entry(i, c) == [inner |-> i, complete |-> c]

\* MapEntry::hash
hash(e) == inners[e.inner].hash

\* MutableMemStorage::current_size of the storage of e
current_size(e) == Len(inners[e.inner].data)

\* MapEntry::is_complete
is_complete(e) == e.complete

\* MapEntry::size: BaoBlobSize::new(current_size, complete)
size_of(e) == <<current_size(e), e.complete>>

\* MapEntry::data_reader: what the reader gives over the whole range
data_reader(e) == inners[e.inner].data

\* ChunkRanges::all(): every chunk number from 0 on
ChunkRanges_all == Nat

\* MapEntry::available_ranges
available_ranges(e) == ChunkRanges_all

\* the chunk numbers the blobs of the model reach; a chunk of the model is
\* one byte long
ChunkNums == 0..(CHOOSE n \in {Len(b) : b \in Blobs} : \A b \in Blobs : Len(b) <= n)

\* the slots some Entry points to: the Arcs with a strong count above 0
\* no iterator is held
NoIter == [kind |-> "none", items |-> {}, yielded |-> {}]

\* the EntryInner values that the map an iterator owns keeps alive
IterSlots(i) ==
    IF i.kind \in {"blobs", "partial_blobs"} THEN {x.inner : x \in i.items} ELSE {}

Referenced(es, hs) ==
    {es[h].inner : h \in DOMAIN es} \cup {e.inner : e \in hs} \cup IterSlots(it)

\* dropping the last Entry of an EntryInner frees it
Release(ins, es, hs) ==
    [i \in Slots |-> IF i \in Referenced(es, hs) THEN ins[i] ELSE NoInner]

FreeSlots == {i \in Slots : inners[i] = NoInner}

\* Arc::new: the slot a new EntryInner is put in
NewSlot == CHOOSE i \in FreeSlots : \A j \in FreeSlots : i <= j

\* ------------------------------------------------------------ TempTags
\* the HashAndFormat of the TempTag that thread t holds
KeyOf(t) == thr[t].tag

\* the threads that hold a TempTag for k: the one import_bytes_sync created,
\* until the caller it was returned to drops it
Holding(k) == {t \in Threads : thr[t].pc \in {"tagged", "done"} /\ KeyOf(t) = k}

\* the number of TempTag values for k that exist
Extant(k) == held[k] + Cardinality(Holding(k))

RECURSIVE Sum(_, _)
Sum(f, S) ==
    IF S = {} THEN 0
    ELSE LET x == CHOOSE y \in S : TRUE IN f[x] + Sum(f, S \ {x})

TotalExtant ==
    Sum(held, HashAndFormat)
    + Cardinality({t \in Threads : thr[t].pc \in {"tagged", "done"}})

\* a thread that is not inside import_bytes and holds no TempTag
Idle == [pc |-> "idle", bytes |-> <<>>, tag |-> <<0, "Raw">>]

\* a thread that is not inside import_file or import_stream: bytes is what
\* was read, rest the items the stream still has, log the progress events
\* emitted with the id of the import, dropped whether a try_send failed,
\* err the error the import returned, tag the TempTag in hand
NoImport ==
    [pc |-> "idle", kind |-> "none", bytes |-> <<>>, rest |-> <<>>,
     format |-> "Raw", log |-> <<>>, dropped |-> FALSE, err |-> "none",
     tag |-> <<>>]

\* the lock of a storage nobody writes to
NoWrite == [locked |-> FALSE, batch |-> <<>>, items |-> <<>>]

\* no export_sync is under way; calls are the offsets its callback was given
\* since the last export was called
NoExport == [pc |-> "idle", hash |-> 0, offset |-> 0, size |-> 0, calls |-> <<>>]

\* no directory and no file: file is <<>> or <<content>>
NoFiles == [dir |-> FALSE, file |-> <<>>]

\* ----------------------------------------------------------------- Init
\* Store::new(): StateInner::default()
Init ==
    /\ entries = <<>>
    /\ tags = <<>>
    /\ temp = <<>>
    /\ live = {}
    /\ inners = [i \in Slots |-> NoInner]
    /\ handles = {}
    /\ held = [k \in HashAndFormat |-> 0]
    /\ thr = [t \in Threads |-> Idle]
    /\ ret = "Ok"
    /\ imp = [t \in Threads |-> NoImport]
    /\ wr = [i \in Slots |-> NoWrite]
    /\ rd = <<>>
    /\ ex = NoExport
    /\ fs = NoFiles
    /\ stores = 1
    /\ lock = 0
    /\ op = [t \in Threads |-> NoOp]
    /\ it = NoIter

\* ---------------------------------------------------- LivenessTracker
\* on_clone with the count set to 1 instead of raised
on_clone_set(k) == temp' = [x \in DOMAIN temp \cup {k} |-> IF x = k THEN 1 ELSE temp[x]]

\* StoreInner::on_clone
on_clone(k) == temp' = inc(temp, k)

\* on_drop with the key removed whatever its count is
on_drop_remove(k) == temp' = [x \in DOMAIN temp \ {k} |-> temp[x]]

\* StoreInner::on_drop
on_drop(k) == temp' = dec(temp, k)

\* Store::temp_tag: TempTag::new registers the new value with the tracker
temp_tag(k) ==
    /\ TotalExtant < MaxTempTags
    /\ on_clone(k)
    /\ held' = [held EXCEPT ![k] = @ + 1]
    /\ ret' = "Ok"
    /\ UNCHANGED <<entries, tags, live, inners, handles, thr>>
    /\ UNCHANGED ext

\* the tracker of a TempTag is there: Weak::upgrade gives the StoreInner
\* for as long as a Store exists
TrackerAlive == stores > 0

\* TempTag::clone of a value a caller holds
TempTagClone(k) ==
    /\ TotalExtant < MaxTempTags
    /\ Extant(k) > 0
    /\ IF TrackerAlive THEN on_clone(k) ELSE temp' = temp
    /\ held' = [held EXCEPT ![k] = @ + 1]
    /\ ret' = "Ok"
    /\ UNCHANGED <<entries, tags, live, inners, handles, thr>>
    /\ UNCHANGED ext

\* TempTag::drop of a value a caller holds
TempTagDrop(k) ==
    /\ held[k] > 0
    /\ IF TrackerAlive THEN on_drop(k) ELSE temp' = temp
    /\ held' = [held EXCEPT ![k] = @ - 1]
    /\ ret' = "Ok"
    /\ UNCHANGED <<entries, tags, live, inners, handles, thr>>
    /\ UNCHANGED ext

\* ----------------------------------------------------------------- Store
\* a call on the store is under way: it borrows a Store
Running ==
    \/ \E t \in Threads : thr[t].pc = "tagged" \/ ~(imp[t].pc \in {"idle", "returned", "failed"})
    \/ ex.pc # "idle"

\* Store::clone
StoreClone ==
    /\ stores > 0
    /\ stores < MaxStores
    /\ stores' = stores + 1
    /\ UNCHANGED <<entries, tags, temp, live, inners, handles, held, thr, ret,
                   imp, wr, rd, ex, fs, lock, op, it>>

\* the drop of a Store with the StateInner kept for as long as a TempTag
\* exists
StoreDrop_pinned ==
    /\ stores > 0
    /\ stores = 1 => ~Running
    /\ stores' = stores - 1
    /\ IF stores = 1 /\ TotalExtant = 0
       THEN /\ entries' = <<>>
            /\ tags' = <<>>
            /\ temp' = <<>>
            /\ live' = {}
            /\ inners' = Release(inners, <<>>, handles)
       ELSE UNCHANGED <<entries, tags, temp, live, inners>>
    /\ UNCHANGED <<handles, held, thr, ret, imp, wr, rd, ex, fs, lock, op, it>>

\* the drop of a Store: the last one drops the StoreInner, and with it
\* the maps of StateInner and the entries they hold
StoreDrop ==
    /\ stores > 0
    /\ stores = 1 => ~Running
    /\ stores' = stores - 1
    /\ IF stores = 1
       THEN /\ entries' = <<>>
            /\ tags' = <<>>
            /\ temp' = <<>>
            /\ live' = {}
            /\ inners' = Release(inners, <<>>, handles)
       ELSE UNCHANGED <<entries, tags, temp, live, inners>>
    /\ UNCHANGED <<handles, held, thr, ret, imp, wr, rd, ex, fs, lock, op, it>>

\* ---------------------------------------------------------------- import
\* import_bytes_sync with the TempTag created without the tracker
\* (TempTag::new(tag, None)): nothing is registered in temp
import_temp_tag_untracked(t, b, f) ==
    /\ thr[t].pc = "idle"
    /\ TotalExtant < MaxTempTags
    /\ thr' = [thr EXCEPT ![t] = [pc |-> "tagged", bytes |-> b,
                                  tag |-> <<tree_hash(b), f>>]]
    /\ UNCHANGED <<entries, tags, temp, live, inners, handles, held, ret>>
    /\ UNCHANGED ext

\* import_bytes_sync that inserts the entry first and has its TempTag yet
\* to create
import_temp_tag_late(t, b, f) ==
    /\ thr[t].pc = "idle"
    /\ TotalExtant < MaxTempTags
    /\ FreeSlots # {}
    /\ LET h == tree_hash(b)
           es == [x \in DOMAIN entries \cup {h} |->
                     IF x = h THEN Entry(NewSlot, TRUE) ELSE entries[x]]
       IN /\ entries' = es
          /\ inners' = Release([inners EXCEPT ![NewSlot] = [hash |-> h, data |-> b]],
                               es, handles)
    /\ thr' = [thr EXCEPT ![t] = [pc |-> "tagged", bytes |-> b,
                                  tag |-> <<tree_hash(b), f>>]]
    /\ UNCHANGED <<tags, temp, live, handles, held, ret>>
    /\ UNCHANGED ext

\* import_bytes_sync up to and including self.temp_tag(..): the content is
\* hashed and the TempTag of the import is created
import_temp_tag(t, b, f) ==
    /\ thr[t].pc = "idle"
    /\ TotalExtant < MaxTempTags
    /\ on_clone(<<tree_hash(b), f>>)
    /\ thr' = [thr EXCEPT ![t] = [pc |-> "tagged", bytes |-> b,
                                  tag |-> <<tree_hash(b), f>>]]
    /\ UNCHANGED <<entries, tags, live, inners, handles, held, ret>>
    /\ UNCHANGED ext

\* the map after entries.insert(h, e)
insert(m, h, e) == [x \in DOMAIN m \cup {h} |-> IF x = h THEN e ELSE m[x]]

\* import_inner with the hash taken before the content was hashed
import_inner_unhashed(b) == [hash |-> tree_hash(<<>>), data |-> b]

\* the EntryInner that import_bytes_sync builds for content b
import_inner(b) == [hash |-> tree_hash(b), data |-> b]

\* import_bytes_sync from Entry { .. } to Ok(tag): the complete entry is
\* inserted under the write lock and the TempTag is returned
import_insert(t) ==
    /\ thr[t].pc = "tagged"
    /\ FreeSlots # {}
    /\ LET i == NewSlot
           h == tree_hash(thr[t].bytes)
           es == insert(entries, h, Entry(i, TRUE))
       IN /\ entries' = es
          /\ inners' = Release([inners EXCEPT ![i] = import_inner(thr[t].bytes)],
                               es, handles)
    /\ thr' = [thr EXCEPT ![t].pc = "done"]
    /\ ret' = "Ok"
    /\ UNCHANGED <<tags, temp, live, handles, held>>
    /\ UNCHANGED ext

\* the caller of import_bytes drops the TempTag it was given
import_tag_drop(t) ==
    /\ thr[t].pc = "done"
    /\ IF TrackerAlive THEN on_drop(KeyOf(t)) ELSE temp' = temp
    /\ thr' = [thr EXCEPT ![t] = Idle]
    /\ ret' = "Ok"
    /\ UNCHANGED <<entries, tags, live, inners, handles, held>>
    /\ UNCHANGED ext

\* -------------------------------------------- import_file, import_stream
\* the results of std::fs::read(path): <<>> is Err, <<b>> is Ok(b)
ReadResults == {<<>>} \cup {<<b>> : b \in Blobs}

\* the streams given to import_stream: the items are io::Result<Bytes>,
\* <<>> is Err and <<b>> is Ok(b)
Streams ==
    {<< >>, << <<<<1, 0>>>> >>, << <<<<1>>>>, <<<<0>>>> >>, << <<<<1>>>>, <<>> >>}

\* the thread is in no import and its last one, if any, has returned
Resting(t) == imp[t].pc \in {"idle", "returned", "failed"}

\* the TempTags that threads inside import_file or import_stream hold
InHand == Cardinality({t \in Threads : imp[t].tag # <<>>})

\* the part of the state that the steps before temp_tag leave alone
store == <<entries, tags, temp, live, inners, handles, held, thr, wr, rd, ex, fs, stores, lock, op, it>>

\* progress.blocking_send(ev)? and progress.send(ev).await?: the event is
\* emitted; the import goes on to pc when the sender accepts it and returns
\* the error when it does not
blocking_send(t, ev, ok, pc) ==
    /\ imp' = [imp EXCEPT ![t].log = Append(@, ev),
                          ![t].pc = IF ok THEN pc ELSE "failed",
                          ![t].err = IF ok THEN @ ELSE "ProgressClosed"]
    /\ ret' = IF ok THEN ret ELSE "ProgressClosed"

\* import_file: new_id and blocking_send(Found)?
import_file_found(t, format, ok) ==
    /\ Resting(t)
    /\ imp' = [imp EXCEPT ![t] =
                 [NoImport EXCEPT !.kind = "file", !.format = format,
                                  !.log = <<"Found">>,
                                  !.pc = IF ok THEN "found" ELSE "failed",
                                  !.err = IF ok THEN "none" ELSE "ProgressClosed"]]
    /\ ret' = IF ok THEN ret ELSE "ProgressClosed"
    /\ UNCHANGED store

\* import_file: try_send(CopyProgress { offset: 0 })?
import_file_copy(t, ok) ==
    /\ imp[t].pc = "found"
    /\ imp' = [imp EXCEPT ![t].log = Append(@, "CopyProgress"),
                          ![t].dropped = @ \/ ~ok,
                          ![t].pc = IF ok THEN "copied" ELSE "failed",
                          ![t].err = IF ok THEN @ ELSE "ProgressClosed"]
    /\ ret' = IF ok THEN ret ELSE "ProgressClosed"
    /\ UNCHANGED store

\* import_file: std::fs::read(path)?
import_file_read(t, r) ==
    /\ imp[t].pc = "copied"
    /\ IF r = <<>>
       THEN imp' = [imp EXCEPT ![t].pc = "failed", ![t].err = "Io"] /\ ret' = "Io"
       ELSE imp' = [imp EXCEPT ![t].bytes = r[1], ![t].pc = "read"] /\ ret' = ret
    /\ UNCHANGED store

\* import_stream: new_id, temp_name and send(Found).await?
import_stream_found(t, data, format, ok) ==
    /\ Resting(t)
    /\ imp' = [imp EXCEPT ![t] =
                 [NoImport EXCEPT !.kind = "stream", !.format = format,
                                  !.rest = IF ok THEN data ELSE <<>>,
                                  !.log = <<"Found">>,
                                  !.pc = IF ok THEN "streaming" ELSE "failed",
                                  !.err = IF ok THEN "none" ELSE "ProgressClosed"]]
    /\ ret' = IF ok THEN ret ELSE "ProgressClosed"
    /\ UNCHANGED store

\* import_stream: one turn of the loop: data.next(), chunk?,
\* extend_from_slice and try_send(CopyProgress).ok()
import_stream_chunk(t, ok) ==
    /\ imp[t].pc = "streaming"
    /\ imp[t].rest # <<>>
    /\ IF Head(imp[t].rest) = <<>>
       THEN /\ imp' = [imp EXCEPT ![t].pc = "failed", ![t].err = "Io",
                                  ![t].bytes = <<>>, ![t].rest = <<>>]
            /\ ret' = "Io"
       ELSE /\ imp' = [imp EXCEPT ![t].bytes = @ \o Head(imp[t].rest)[1],
                                  ![t].rest = Tail(@),
                                  ![t].log = Append(@, "CopyProgress"),
                                  ![t].dropped = @ \/ ~ok]
            /\ ret' = ret
    /\ UNCHANGED store

\* import_file and import_stream: blocking_send(Size)? once the file is read
\* or the stream has ended
import_size(t, ok) ==
    /\ \/ imp[t].pc = "read"
       \/ imp[t].pc = "streaming" /\ imp[t].rest = <<>>
    /\ blocking_send(t, "Size", ok, "sized")
    /\ UNCHANGED store

\* import_bytes_sync: blocking_send(OutboardProgress { offset: 0 })?
import_bytes_sync_progress(t, ok) ==
    /\ imp[t].pc = "sized"
    /\ blocking_send(t, "OutboardProgress", ok, "hashing")
    /\ UNCHANGED store

\* import_bytes_sync with the TempTag made before OutboardDone is sent and
\* forgotten when the sender rejects the event
import_bytes_sync_done_tagged(t, ok) ==
    /\ imp[t].pc = "hashing"
    /\ blocking_send(t, "OutboardDone", ok, "hashed")
    /\ IF ok THEN temp' = temp
       ELSE on_clone(<<tree_hash(imp[t].bytes), imp[t].format>>)
    /\ UNCHANGED <<entries, tags, live, inners, handles, held, thr>>
    /\ UNCHANGED <<wr, rd, ex, fs, stores, lock, op, it>>

\* import_bytes_sync: MutableMemStorage::complete and
\* blocking_send(OutboardDone)?
import_bytes_sync_done(t, ok) ==
    /\ imp[t].pc = "hashing"
    /\ blocking_send(t, "OutboardDone", ok, "hashed")
    /\ UNCHANGED store

\* import_bytes_sync: self.temp_tag(HashAndFormat { hash, format })
import_bytes_sync_tag(t) ==
    /\ imp[t].pc = "hashed"
    /\ TotalExtant + InHand < MaxTempTags
    /\ on_clone(<<tree_hash(imp[t].bytes), imp[t].format>>)
    /\ imp' = [imp EXCEPT ![t].tag = <<<<tree_hash(imp[t].bytes), imp[t].format>>>>,
                          ![t].pc = "tagged"]
    /\ UNCHANGED <<entries, tags, live, inners, handles, held, thr, ret>>
    /\ UNCHANGED <<wr, rd, ex, fs, stores, lock, op, it>>

\* import_bytes_sync with the entry inserted while the outboard is still
\* being computed
import_bytes_sync_insert_early(t) ==
    /\ imp[t].pc \in {"hashing", "tagged"}
    /\ FreeSlots # {}
    /\ LET i == NewSlot
           h == tree_hash(imp[t].bytes)
           es == insert(entries, h, Entry(i, TRUE))
       IN /\ entries' = es
          /\ inners' = Release([inners EXCEPT ![i] = import_inner(imp[t].bytes)],
                               es, handles)
          /\ held' = [held EXCEPT ![<<h, imp[t].format>>] = @ + 1]
    /\ imp' = [imp EXCEPT ![t].tag = <<>>, ![t].pc = "returned"]
    /\ ret' = "Ok"
    /\ UNCHANGED <<tags, temp, live, handles, thr>>
    /\ UNCHANGED <<wr, rd, ex, fs, stores, lock, op, it>>

\* import_bytes_sync: entries.insert(hash, entry) under the write lock, and
\* the return of the TempTag and the size to the caller
import_bytes_sync_insert(t) ==
    /\ imp[t].pc = "tagged"
    /\ FreeSlots # {}
    /\ LET i == NewSlot
           h == tree_hash(imp[t].bytes)
           es == insert(entries, h, Entry(i, TRUE))
       IN /\ entries' = es
          /\ inners' = Release([inners EXCEPT ![i] = import_inner(imp[t].bytes)],
                               es, handles)
          /\ held' = [held EXCEPT ![<<h, imp[t].format>>] = @ + 1]
    /\ imp' = [imp EXCEPT ![t].tag = <<>>, ![t].pc = "returned"]
    /\ ret' = "Ok"
    /\ UNCHANGED <<tags, temp, live, handles, thr>>
    /\ UNCHANGED <<wr, rd, ex, fs, stores, lock, op, it>>

\* ------------------------------------------------------------- tags, live
\* the tags() iterator: the pairs of the map at the time of the call
tags_iter == {<<n, tags[n]>> : n \in DOMAIN tags}

\* set_tag that keeps the value of a name that is already there
set_tag_keep(name, value) ==
    /\ IF value # <<>>
       THEN tags' = [x \in DOMAIN tags \cup {name} |->
                        IF x \in DOMAIN tags THEN tags[x] ELSE value[1]]
       ELSE tags' = [x \in DOMAIN tags \ {name} |-> tags[x]]
    /\ ret' = "Ok"
    /\ UNCHANGED <<entries, temp, live, inners, handles, held, thr>>
    /\ UNCHANGED ext

\* Store::set_tag
set_tag(name, value) ==
    /\ IF value # <<>>
       THEN tags' = [x \in DOMAIN tags \cup {name} |->
                        IF x = name THEN value[1] ELSE tags[x]]
       ELSE tags' = [x \in DOMAIN tags \ {name} |-> tags[x]]
    /\ ret' = "Ok"
    /\ UNCHANGED <<entries, temp, live, inners, handles, held, thr>>
    /\ UNCHANGED ext

\* the values SystemTime::now() gives to create_tag
ClockValues == {1, 2}

\* Tag::auto: the text "auto-<time>", followed by "-<i>" from the second
\* attempt on
auto_text(time, i) ==
    IF i = 0 THEN "auto-" \o ToString(time)
    ELSE "auto-" \o ToString(time) \o "-" \o ToString(i)

RECURSIVE auto_from(_, _, _)
\* Tag::auto: the first text, counting i upwards, that exists(text) rejects
auto_from(time, i, exists) ==
    IF auto_text(time, i) \in exists THEN auto_from(time, i + 1, exists)
    ELSE auto_text(time, i)

\* Tag::auto(time, exists)
Tag_auto(time, exists) == auto_from(time, 0, exists)

\* create_tag that takes the first text whether or not it is a key
create_tag_unchecked(value, time) ==
    /\ Cardinality(DOMAIN tags) < MaxTags
    /\ tags' = insert(tags, Tag_auto(time, {}), value)
    /\ ret' = Tag_auto(time, {})
    /\ UNCHANGED <<entries, temp, live, inners, handles, held, thr>>
    /\ UNCHANGED ext

\* Store::create_tag; the result is the new name
create_tag(value, time) ==
    /\ Cardinality(DOMAIN tags) < MaxTags
    /\ tags' = insert(tags, Tag_auto(time, DOMAIN tags), value)
    /\ ret' = Tag_auto(time, DOMAIN tags)
    /\ UNCHANGED <<entries, temp, live, inners, handles, held, thr>>
    /\ UNCHANGED ext

\* Store::clear_live
clear_live ==
    /\ live' = {}
    /\ ret' = "Ok"
    /\ UNCHANGED <<entries, tags, temp, inners, handles, held, thr>>
    /\ UNCHANGED ext

\* Store::add_live
add_live(hs) ==
    /\ live' = live \cup hs
    /\ ret' = "Ok"
    /\ UNCHANGED <<entries, tags, temp, inners, handles, held, thr>>
    /\ UNCHANGED ext

\* is_live with the targets of the tags counted as live
is_live_tagged(h) ==
    h \in live \/ contains(temp, h) \/ \E n \in DOMAIN tags : tags[n][1] = h

\* Store::is_live
is_live(h) == h \in live \/ contains(temp, h)

\* ---------------------------------------------------------------- delete
RECURSIVE remove_all(_, _)
\* for hash in hashes { state.entries.remove(&hash); }
remove_all(m, hashes) ==
    IF hashes = <<>> THEN m
    ELSE remove_all([x \in DOMAIN m \ {Head(hashes)} |-> m[x]], Tail(hashes))

\* delete that also frees the storage of the entries callers hold
delete_freeing(hashes) ==
    /\ UNCHANGED <<tags, temp, live, handles, held, thr>>
    /\ UNCHANGED ext
    /\ entries' = remove_all(entries, hashes)
    /\ inners' = Release(inners, entries', {})
    /\ ret' = "Ok"

\* delete with the hashes that are live spared
delete_unless_live(hashes) ==
    /\ UNCHANGED <<tags, temp, live, handles, held, thr>>
    /\ UNCHANGED ext
    /\ entries' = remove_all(entries, SelectSeq(hashes, LAMBDA h : h \notin live))
    /\ inners' = Release(inners, entries', handles)
    /\ ret' = "Ok"

\* Store::delete
delete(hashes) ==
    /\ UNCHANGED <<tags, temp, live, handles, held, thr>>
    /\ UNCHANGED ext
    /\ entries' = remove_all(entries, hashes)
    /\ inners' = Release(inners, entries', handles)
    /\ ret' = "Ok"

\* -------------------------------------------------------------- Map, MapMut
\* Map::get: the result, <<>> for None and <<e>> for Some(e)
get_result(h) == IF h \in DOMAIN entries THEN <<entries[h]>> ELSE <<>>

\* Map::get: the caller keeps the clone it is given
get(h) ==
    /\ Cardinality(handles \cup {get_result(h)[i] : i \in DOMAIN get_result(h)})
          <= MaxHandles
    /\ handles' = handles \cup {get_result(h)[i] : i \in DOMAIN get_result(h)}
    /\ ret' = "Ok"
    /\ UNCHANGED <<entries, tags, temp, live, inners, held, thr>>
    /\ UNCHANGED ext

\* a caller drops an Entry it holds
EntryDrop(e) ==
    /\ e \in handles
    /\ handles' = handles \ {e}
    /\ inners' = Release(inners, entries, handles')
    /\ UNCHANGED <<entries, tags, temp, live, held, thr, ret>>
    /\ UNCHANGED ext

\* the EntryInner that get_or_create_partial builds
partial_inner(h) == [hash |-> h, data |-> <<>>]

\* get_or_create_partial with the new entry registered in entries
get_or_create_partial_registered(h, size) ==
    /\ FreeSlots # {}
    /\ Cardinality(handles) < MaxHandles
    /\ entries' = insert(entries, h, Entry(NewSlot, FALSE))
    /\ handles' = handles \cup {Entry(NewSlot, FALSE)}
    /\ inners' = Release([inners EXCEPT ![NewSlot] = partial_inner(h)],
                         entries', handles')
    /\ ret' = "Ok"
    /\ UNCHANGED <<tags, temp, live, held, thr>>
    /\ UNCHANGED ext

\* MapMut::get_or_create_partial
get_or_create_partial(h, size) ==
    /\ FreeSlots # {}
    /\ Cardinality(handles) < MaxHandles
    /\ inners' = [inners EXCEPT ![NewSlot] = partial_inner(h)]
    /\ handles' = handles \cup {Entry(NewSlot, FALSE)}
    /\ ret' = "Ok"
    /\ UNCHANGED <<entries, tags, temp, live, held, thr>>
    /\ UNCHANGED ext

\* MapMut::entry_status
entry_status(h) ==
    IF h \in DOMAIN entries
    THEN IF entries[h].complete THEN "Complete" ELSE "Partial"
    ELSE "NotFound"

\* MapMut::get_possibly_partial: the variant that is returned
get_possibly_partial(h) ==
    IF h \in DOMAIN entries
    THEN IF entries[h].complete THEN "Complete" ELSE "Partial"
    ELSE "NotFound"

\* insert_complete without the test for a complete entry in the map
insert_complete_always(e) ==
    /\ e \in handles
    /\ entries' = insert(entries, hash(e), [e EXCEPT !.complete = TRUE])
    /\ inners' = Release(inners, entries', handles)
    /\ ret' = "Ok"
    /\ UNCHANGED <<tags, temp, live, handles, held, thr>>
    /\ UNCHANGED ext

\* insert_complete without entry.complete = true
insert_complete_unmarked(e) ==
    /\ e \in handles
    /\ LET h == hash(e)
           complete == IF h \in DOMAIN entries THEN entries[h].complete ELSE FALSE
       IN IF complete
          THEN entries' = insert(entries, h, e)
          ELSE entries' = entries
    /\ inners' = Release(inners, entries', handles)
    /\ ret' = "Ok"
    /\ UNCHANGED <<tags, temp, live, handles, held, thr>>
    /\ UNCHANGED ext

\* MapMut::insert_complete
insert_complete(e) ==
    /\ e \in handles
    /\ LET h == hash(e)
           complete == IF h \in DOMAIN entries THEN entries[h].complete ELSE FALSE
       IN IF complete
          THEN entries' = insert(entries, h, [e EXCEPT !.complete = TRUE])
          ELSE entries' = entries
    /\ inners' = Release(inners, entries', handles)
    /\ ret' = "Ok"
    /\ UNCHANGED <<tags, temp, live, handles, held, thr>>
    /\ UNCHANGED ext

\* ------------------------------------------------ BatchWriter, DataReader
\* the content whose root hash is h
Content(h) == CHOOSE b \in Blobs : tree_hash(b) = h

\* the leaves of a batch that carries the whole of b, one chunk each; a
\* chunk of the model is one byte long
Leaves(b) == [i \in 1..Len(b) |-> [offset |-> i - 1, bytes |-> <<b[i]>>]]

\* the batches peers send: those of the blobs, and one whose bytes differ
Batches == {Leaves(b) : b \in Blobs} \cup {Leaves(<<0, 1>>)}

\* the sizes peers assert
Sizes == {Len(b) : b \in Blobs}

\* MutableMemStorage::write_batch: every leaf hashes up to the root hash of
\* the entry, and size is the length of the blob with that hash
Verified(h, size, batch) ==
    /\ size = Len(Content(h))
    /\ \A j \in 1..Len(batch) :
          /\ batch[j].offset + Len(batch[j].bytes) <= size
          /\ batch[j].bytes =
                SubSeq(Content(h), batch[j].offset + 1,
                       batch[j].offset + Len(batch[j].bytes))

\* MutableMemStorage::write_batch: the bytes of a leaf are written at its
\* offset, the buffer grows to hold them and gaps are filled with zeros
write_at(data, leaf) ==
    LET end == leaf.offset + Len(leaf.bytes)
        len == IF end > Len(data) THEN end ELSE Len(data)
    IN [x \in 1..len |->
          IF x > leaf.offset /\ x <= end THEN leaf.bytes[x - leaf.offset]
          ELSE IF x <= Len(data) THEN data[x] ELSE 0]

\* MutableMemStorage::read_data_at(offset, len): the bytes there are in
\* [offset, offset + len)
read_data_at(data, offset, len) ==
    SubSeq(data, offset + 1, IF offset + len < Len(data) THEN offset + len ELSE Len(data))

\* the outboard of a storage: one hash for every chunk there is, each over
\* the content up to and including that chunk
outboard_of(data) == [x \in 1..Len(data) |-> tree_hash(SubSeq(data, 1, x))]

\* MutableMemStorage::read_outboard_at(offset, len)
read_outboard_at(data, offset, len) ==
    SubSeq(outboard_of(data), offset + 1,
           IF offset + len < Len(data) THEN offset + len ELSE Len(data))

\* write_batch that writes the batch without verifying it
write_batch_unverified(e, size, batch) ==
    /\ e \in handles
    /\ ~wr[e.inner].locked
    /\ wr' = [wr EXCEPT ![e.inner] =
                 [locked |-> TRUE, batch |-> batch, items |-> batch]]
    /\ ret' = ret
    /\ UNCHANGED <<entries, tags, temp, live, inners, handles, held, thr, imp, rd, ex, fs, stores, lock, op, it>>

\* BatchWriter::write_batch, first part: data.write() takes the write lock
\* of the storage, and the batch is verified; one that fails is returned as
\* an error and the lock is released
write_batch(e, size, batch) ==
    /\ e \in handles
    /\ ~wr[e.inner].locked
    /\ IF Verified(hash(e), size, batch)
       THEN /\ wr' = [wr EXCEPT ![e.inner] =
                        [locked |-> TRUE, batch |-> batch, items |-> batch]]
            /\ ret' = ret
       ELSE /\ wr' = wr
            /\ ret' = "Verification"
    /\ UNCHANGED <<entries, tags, temp, live, inners, handles, held, thr, imp, rd, ex, fs, stores, lock, op, it>>

\* BatchWriter::write_batch, under the write lock: the next leaf is written
write_batch_item(i) ==
    /\ wr[i].locked
    /\ wr[i].items # <<>>
    /\ inners' = [inners EXCEPT ![i].data = write_at(@, Head(wr[i].items))]
    /\ wr' = [wr EXCEPT ![i].items = Tail(@)]
    /\ UNCHANGED <<entries, tags, temp, live, handles, held, thr, imp, rd, ret, ex, fs, stores, lock, op, it>>

\* BatchWriter::write_batch, end: the guard is dropped and Ok(()) returned
write_batch_return(i) ==
    /\ wr[i].locked
    /\ wr[i].items = <<>>
    /\ wr' = [wr EXCEPT ![i] = NoWrite]
    /\ ret' = "Ok"
    /\ UNCHANGED <<entries, tags, temp, live, inners, handles, held, thr, imp, rd, ex, fs, stores, lock, op, it>>

\* the drop of an Entry by a caller who has no write_batch under way
EntryDropAtRest(e) == ~wr[e.inner].locked /\ EntryDrop(e)

\* the Entry values readers can get hold of: those callers hold and, through
\* get, those of the map
Readable == handles \cup {entries[h] : h \in DOMAIN entries}

\* read_at that does not wait for the lock of the storage
read_at_unlocked(e, offset, len) ==
    /\ e \in Readable
    /\ rd' = read_data_at(inners[e.inner].data, offset, len)
    /\ ret' = "Ok"
    /\ UNCHANGED <<entries, tags, temp, live, inners, handles, held, thr, imp, wr, ex, fs, stores, lock, op, it>>

\* MapEntry::data_reader and DataReader::read_at: data.read() waits until no
\* writer holds the lock of the storage
read_at(e, offset, len) ==
    /\ e \in Readable
    /\ ~wr[e.inner].locked
    /\ rd' = read_data_at(inners[e.inner].data, offset, len)
    /\ ret' = "Ok"
    /\ UNCHANGED <<entries, tags, temp, live, inners, handles, held, thr, imp, wr, ex, fs, stores, lock, op, it>>

\* ----------------------------------------------------------------- export
\* the targets given to export: "d/f", "/" and "/d/f"
Targets ==
    {[root |-> FALSE, names |-> <<"d", "f">>],
     [root |-> TRUE, names |-> <<>>],
     [root |-> TRUE, names |-> <<"d", "f">>]}

\* Path::is_absolute
is_absolute(target) == target.root

\* Path::parent: <<>> is None, <<p>> is Some(p)
parent(target) ==
    IF target.names = <<>> THEN <<>>
    ELSE <<[target EXCEPT !.names = SubSeq(@, 1, Len(@) - 1)]>>

\* the window of export_sync, in bytes
Window == 1024 * 1024

\* the store-wide lock is free for a writer: no export_sync holds the read
\* lock
WriteLockFree == ex.pc = "idle"

\* export_sync with the file created before the entry is looked up
export_sync_create_first(h, target, dirs_ok, create_ok) ==
    /\ ex.pc = "idle"
    /\ IF ~is_absolute(target) \/ parent(target) = <<>>
       THEN ex' = NoExport /\ fs' = fs /\ ret' = "InvalidInput"
       ELSE IF ~dirs_ok
       THEN ex' = NoExport /\ fs' = fs /\ ret' = "Io"
       ELSE IF ~create_ok
       THEN ex' = NoExport /\ fs' = [fs EXCEPT !.dir = TRUE] /\ ret' = "Io"
       ELSE IF h \notin DOMAIN entries
       THEN ex' = NoExport /\ fs' = [dir |-> TRUE, file |-> << <<>> >>] /\ ret' = "NotFound"
       ELSE /\ ex' = [pc |-> "writing", hash |-> h, offset |-> 0,
                      size |-> current_size(entries[h]), calls |-> <<>>]
            /\ fs' = [dir |-> TRUE, file |-> << <<>> >>]
            /\ ret' = ret
    /\ UNCHANGED <<entries, tags, temp, live, inners, handles, held, thr, imp, wr, rd, stores, lock, op, it>>

\* export_sync up to the loop: the checks of the target, create_dir_all,
\* read_lock, the lookup of the entry and File::create; dirs_ok and create_ok
\* are what the file system answers
export_sync(h, target, dirs_ok, create_ok) ==
    /\ ex.pc = "idle"
    /\ IF ~is_absolute(target) \/ parent(target) = <<>>
       THEN ex' = NoExport /\ fs' = fs /\ ret' = "InvalidInput"
       ELSE IF ~dirs_ok
       THEN ex' = NoExport /\ fs' = fs /\ ret' = "Io"
       ELSE IF h \notin DOMAIN entries
       THEN ex' = NoExport /\ fs' = [fs EXCEPT !.dir = TRUE] /\ ret' = "NotFound"
       ELSE IF ~create_ok
       THEN ex' = NoExport /\ fs' = [fs EXCEPT !.dir = TRUE] /\ ret' = "Io"
       ELSE /\ ex' = [pc |-> "writing", hash |-> h, offset |-> 0,
                      size |-> current_size(entries[h]), calls |-> <<>>]
            /\ fs' = [dir |-> TRUE, file |-> << <<>> >>]
            /\ ret' = ret
    /\ UNCHANGED <<entries, tags, temp, live, inners, handles, held, thr, imp, wr, rd, stores, lock, op, it>>

\* export_sync, one turn of the loop under the read lock: read_data_at,
\* file.write_at(offset, &bytes)? and progress(offset)?
export_sync_window(write_ok, progress_ok) ==
    /\ ex.pc = "writing"
    /\ ex.offset < ex.size
    /\ ~wr[entries[ex.hash].inner].locked
    /\ IF ~write_ok
       THEN ex' = [NoExport EXCEPT !.calls = ex.calls] /\ fs' = fs /\ ret' = "Io"
       ELSE /\ fs' = [fs EXCEPT !.file =
                        <<write_at(@[1], [offset |-> ex.offset,
                                          bytes |-> read_data_at(inners[entries[ex.hash].inner].data,
                                                                 ex.offset, Window)])>>]
            /\ IF progress_ok
               THEN /\ ex' = [ex EXCEPT !.offset = @ + Window,
                                        !.calls = Append(@, ex.offset)]
                    /\ ret' = ret
               ELSE /\ ex' = [NoExport EXCEPT !.calls = Append(ex.calls, ex.offset)]
                    /\ ret' = "Callback"
    /\ UNCHANGED <<entries, tags, temp, live, inners, handles, held, thr, imp, wr, rd, stores, lock, op, it>>

\* export_sync after the loop: flush, drop(file), the read lock is released
\* and Ok(()) returned
export_sync_flush ==
    /\ ex.pc = "writing"
    /\ ex.offset >= ex.size
    /\ ex' = [NoExport EXCEPT !.calls = ex.calls]
    /\ ret' = "Ok"
    /\ UNCHANGED <<entries, tags, temp, live, inners, handles, held, thr, imp, wr, rd, fs, stores, lock, op, it>>

\* ----------------------------------------------------------- ReadableStore
\* ReadableStore::blobs: the hashes the iterator yields
blobs == {hash(entries[h]) : h \in {x \in DOMAIN entries : entries[x].complete}}

\* partial_blobs with the filter of blobs
partial_blobs_complete ==
    {hash(entries[h]) : h \in {x \in DOMAIN entries : entries[x].complete}}

\* ReadableStore::partial_blobs
partial_blobs ==
    {hash(entries[h]) : h \in {x \in DOMAIN entries : ~entries[x].complete}}

\* ----------------------------------------------------------------- Next
\* the vectors given to delete: empty, one hash, two hashes (twice the same
\* one included)
DeleteArgs == {<<>>} \cup {<<h>> : h \in Hashes} \cup {<<h, g>> : h, g \in Hashes}

SetTagArgs == {<<>>} \cup {<<v>> : v \in TagValues}

\* import_bytes, and what its caller does with the TempTag
Imports ==
    \/ \E t \in Threads, b \in Blobs, f \in BlobFormat : import_temp_tag(t, b, f)
    \/ \E t \in Threads : import_insert(t)
    \/ \E t \in Threads : import_tag_drop(t)

\* the operations on the TempTags callers hold
TempTags ==
    \/ \E k \in HashAndFormat : temp_tag(k)
    \/ \E k \in HashAndFormat : TempTagClone(k)
    \/ \E k \in HashAndFormat : TempTagDrop(k)

\* the operations on tags and the live set
Pins ==
    \/ \E n \in TagNames, v \in SetTagArgs : set_tag(n, v)
    \/ clear_live
    \/ \E hs \in SUBSET Hashes : add_live(hs)

\* the operations of Map and MapMut, and what callers do with an Entry
Maps ==
    \/ \E h \in Hashes : get(h)
    \/ \E e \in EntryValues : EntryDrop(e)
    \/ \E h \in Hashes, size \in {0, 2} : get_or_create_partial(h, size)
    \/ \E e \in EntryValues : insert_complete(e)

Deletes == \E hashes \in DeleteArgs : delete(hashes)

Next == Imports \/ TempTags \/ Pins \/ Maps \/ Deletes

Spec == Init /\ [][Next]_vars

\* imports, deletes and everything that pins a hash
NextLive == Imports \/ TempTags \/ Pins \/ Deletes

SpecLive == Init /\ [][NextLive]_vars

\* import_bytes called by one thread, one call after the other
ImportsInTurn ==
    \/ \E b \in Blobs, f \in BlobFormat : import_temp_tag(1, b, f)
    \/ import_insert(1)
    \/ import_tag_drop(1)

\* imports in turn, tags and the live set, deletes, and the entries callers
\* hold and insert
NextMap == ImportsInTurn \/ Pins \/ Maps \/ Deletes

SpecMap == Init /\ [][NextMap]_vars

\* the names callers give to set_tag when tags are also created: "auto-1" is
\* a name that create_tag can come up with
CallerTagNames == {"n", "auto-1"}

\* set_tag and create_tag, next to the live set and imports in turn
NextTags ==
    \/ \E n \in CallerTagNames, v \in SetTagArgs : set_tag(n, v)
    \/ \E hf \in TagValues, time \in ClockValues : create_tag(hf, time)
    \/ clear_live
    \/ \E hs \in SUBSET Hashes : add_live(hs)

SpecTags == Init /\ [][NextTags]_vars

\* import_file and import_stream called by thread 1, one call after the
\* other, with a progress sender that accepts or rejects each event;
\* import_bytes called by thread 2 meanwhile; callers dropping the TempTags
\* they got
NextProgress ==
    \/ \E f \in BlobFormat, ok \in BOOLEAN : import_file_found(1, f, ok)
    \/ \E ok \in BOOLEAN : import_file_copy(1, ok)
    \/ \E r \in ReadResults : import_file_read(1, r)
    \/ \E data \in Streams, f \in BlobFormat, ok \in BOOLEAN :
          import_stream_found(1, data, f, ok)
    \/ \E ok \in BOOLEAN : import_stream_chunk(1, ok)
    \/ \E ok \in BOOLEAN : import_size(1, ok)
    \/ \E ok \in BOOLEAN : import_bytes_sync_progress(1, ok)
    \/ \E ok \in BOOLEAN : import_bytes_sync_done(1, ok)
    \/ import_bytes_sync_tag(1)
    \/ import_bytes_sync_insert(1)
    \/ \E b \in Blobs, f \in BlobFormat : import_temp_tag(2, b, f)
    \/ import_insert(2)
    \/ import_tag_drop(2)
    \/ \E k \in HashAndFormat : TempTagDrop(k)

SpecProgress == Init /\ [][NextProgress]_vars

\* the length of the longest blob
BlobLen == CHOOSE n \in Sizes : \A m \in Sizes : m <= n

\* batches written through the entries callers hold and reads through the
\* entries that share their storage, next to imports in turn and the
\* operations of Map and MapMut; an Entry is dropped when no write_batch
\* through it is under way
NextWrite ==
    \/ \E b \in Blobs : import_temp_tag(1, b, "Raw")
    \/ import_insert(1)
    \/ import_tag_drop(1)
    \/ \E h \in Hashes : get(h)
    \/ \E e \in EntryValues : EntryDropAtRest(e)
    \/ \E h \in Hashes, size \in Sizes : get_or_create_partial(h, size)
    \/ \E e \in EntryValues : insert_complete(e)
    \/ \E e \in EntryValues, size \in Sizes, batch \in Batches : write_batch(e, size, batch)
    \/ \E i \in Slots : write_batch_item(i)
    \/ \E i \in Slots : write_batch_return(i)
    \/ \E e \in EntryValues : read_at(e, 0, BlobLen)

SpecWrite == Init /\ [][NextWrite]_vars

\* the operations that take the write lock of the store wait while an
\* export_sync holds the read lock
Writers == WriteLockFree /\ (ImportsInTurn \/ Deletes)

\* exports, one after the other, next to imports in turn and deletes
NextExport ==
    \/ \E h \in Hashes, target \in Targets, dirs_ok \in BOOLEAN, create_ok \in BOOLEAN :
          export_sync(h, target, dirs_ok, create_ok)
    \/ \E write_ok \in BOOLEAN, progress_ok \in BOOLEAN :
          export_sync_window(write_ok, progress_ok)
    \/ export_sync_flush
    \/ Writers

SpecExport == Init /\ [][NextExport]_vars

\* the calls that need a Store: import_bytes by thread 1 and temp_tag
StoreCalls ==
    /\ stores > 0
    /\ \/ \E b \in Blobs, f \in BlobFormat : import_temp_tag(1, b, f)
       \/ import_insert(1)
       \/ \E k \in HashAndFormat : temp_tag(k)

\* Store values cloned and dropped while TempTags exist, and the TempTags
\* cloned and dropped with and without a Store
NextDrop ==
    \/ StoreCalls
    \/ import_tag_drop(1)
    \/ \E k \in HashAndFormat : TempTagClone(k)
    \/ \E k \in HashAndFormat : TempTagDrop(k)
    \/ StoreClone
    \/ StoreDrop

SpecDrop == Init /\ [][NextDrop]_vars

\* ------------------------------------- the write lock of the store, by step
\* insert_complete and delete as the steps a thread takes: the call, the
\* write lock, what is done under it, and the return that drops the guard.

\* the write lock is granted: nobody writes and no export reads
Unlocked == lock = 0 /\ ex.pc = "idle"

\* a thread that is in no call that it has yet to return from
AtRest(t) == op[t].pc = "idle" /\ thr[t].pc # "tagged"

\* insert_complete: entry.hash() is taken, then self.inner.0.write() is called
insert_complete_call(t, e) ==
    /\ AtRest(t)
    /\ e \in handles
    /\ op' = [op EXCEPT ![t] = [pc |-> "waiting", kind |-> "insert_complete",
                                entry |-> <<e>>, hashes |-> <<hash(e)>>,
                                rest |-> <<>>, complete |-> FALSE]]
    /\ UNCHANGED <<entries, tags, temp, live, inners, handles, held, thr, ret,
                   imp, wr, rd, ex, fs, stores, lock, it>>

\* delete: self.write_lock() is called
delete_call(t, hashes) ==
    /\ AtRest(t)
    /\ op' = [op EXCEPT ![t] = [pc |-> "waiting", kind |-> "delete",
                                entry |-> <<>>, hashes |-> hashes,
                                rest |-> hashes, complete |-> FALSE]]
    /\ UNCHANGED <<entries, tags, temp, live, inners, handles, held, thr, ret,
                   imp, wr, rd, ex, fs, stores, lock, it>>

\* RwLock::write returns the guard to a thread that waits for it
write_lock(t) ==
    /\ op[t].pc = "waiting"
    /\ Unlocked
    /\ lock' = t
    /\ op' = [op EXCEPT ![t].pc = "locked"]
    /\ UNCHANGED <<entries, tags, temp, live, inners, handles, held, thr, ret,
                   imp, wr, rd, ex, fs, stores, it>>

\* insert_complete whose guard is dropped once the check is made
insert_complete_get_unlocked(t) ==
    /\ op[t].kind = "insert_complete"
    /\ op[t].pc = "locked"
    /\ LET h == op[t].hashes[1]
       IN op' = [op EXCEPT ![t].pc = "checked",
                           ![t].complete = IF h \in DOMAIN entries
                                           THEN entries[h].complete ELSE FALSE]
    /\ lock' = 0
    /\ UNCHANGED <<entries, tags, temp, live, inners, handles, held, thr, ret,
                   imp, wr, rd, ex, fs, stores, it>>

\* insert_complete, under the lock: entries.get(&hash).map(|x| x.complete)
insert_complete_get(t) ==
    /\ op[t].kind = "insert_complete"
    /\ op[t].pc = "locked"
    /\ LET h == op[t].hashes[1]
       IN op' = [op EXCEPT ![t].pc = "checked",
                           ![t].complete = IF h \in DOMAIN entries
                                           THEN entries[h].complete ELSE FALSE]
    /\ UNCHANGED <<entries, tags, temp, live, inners, handles, held, thr, ret,
                   imp, wr, rd, ex, fs, stores, lock, it>>

\* insert_complete, under the lock: the entry is inserted if the check said
\* so; Ok(()) is returned and the guard dropped
insert_complete_insert(t) ==
    /\ op[t].kind = "insert_complete"
    /\ op[t].pc = "checked"
    /\ LET e == op[t].entry[1]
           h == op[t].hashes[1]
       IN IF op[t].complete
          THEN entries' = insert(entries, h, [e EXCEPT !.complete = TRUE])
          ELSE entries' = entries
    /\ inners' = Release(inners, entries', handles)
    /\ lock' = 0
    /\ op' = [op EXCEPT ![t] = NoOp]
    /\ ret' = "Ok"
    /\ UNCHANGED <<tags, temp, live, handles, held, thr, imp, wr, rd, ex, fs,
                   stores, it>>

\* delete, under the lock: the next hash of the vector is removed
delete_remove(t) ==
    /\ op[t].kind = "delete"
    /\ op[t].pc = "locked"
    /\ op[t].rest # <<>>
    /\ entries' = remove_all(entries, <<Head(op[t].rest)>>)
    /\ inners' = Release(inners, entries', handles)
    /\ op' = [op EXCEPT ![t].rest = Tail(@)]
    /\ UNCHANGED <<tags, temp, live, handles, held, thr, ret, imp, wr, rd, ex,
                   fs, stores, lock, it>>

\* delete, end: Ok(()) is returned and the guard dropped
delete_return(t) ==
    /\ op[t].kind = "delete"
    /\ op[t].pc = "locked"
    /\ op[t].rest = <<>>
    /\ lock' = 0
    /\ op' = [op EXCEPT ![t] = NoOp]
    /\ ret' = "Ok"
    /\ UNCHANGED <<entries, tags, temp, live, inners, handles, held, thr, imp,
                   wr, rd, ex, fs, stores, it>>

\* an Entry is dropped that no call under way has been given
EntryDropUnused(e) ==
    /\ \A t \in Threads : op[t].entry # <<e>>
    /\ EntryDrop(e)

\* the calls that take the lock within one statement, when it is granted
LockedInTurn ==
    /\ Unlocked
    /\ op[1].pc = "idle"
    /\ \/ \E b \in Blobs : import_temp_tag(1, b, "Raw")
       \/ import_insert(1)
       \/ import_tag_drop(1)

\* the vectors that delete is called with here
DeleteVecs == {<<h>> : h \in Hashes} \cup {<<tree_hash(<<>>), tree_hash(<<1, 0>>)>>}

NextAtomic ==
    \/ LockedInTurn
    \/ \E h \in Hashes : get_or_create_partial(h, 0)
    \/ \E e \in EntryValues : EntryDropUnused(e)
    \/ \E t \in Threads, e \in EntryValues : insert_complete_call(t, e)
    \/ \E t \in Threads, hashes \in DeleteVecs : delete_call(t, hashes)
    \/ \E t \in Threads : write_lock(t)
    \/ \E t \in Threads : insert_complete_get(t)
    \/ \E t \in Threads : insert_complete_insert(t)
    \/ \E t \in Threads : delete_remove(t)
    \/ \E t \in Threads : delete_return(t)

SpecAtomic == Init /\ [][NextAtomic]_vars

\* -------------------------------------------------------------- iterators
\* blobs, partial_blobs, tags and temp_tags clone a map (or collect its
\* keys) under the read lock within one statement and return an iterator
\* that owns the clone.  The order of the items is left out: an iterator is
\* the set of items it still owns and the set of values it has yielded.

\* the values of the map that blobs and partial_blobs clone
into_values(m) == {m[h] : h \in DOMAIN m}

\* .filter(..).map(|x| Ok(x.hash())) over the items an iterator owns
Yields(i) ==
    IF i.kind = "blobs" THEN {hash(x) : x \in {y \in i.items : y.complete}}
    ELSE IF i.kind = "partial_blobs" THEN {hash(x) : x \in {y \in i.items : ~y.complete}}
    ELSE i.items

\* ReadableStore::blobs
blobs_call ==
    /\ it.kind = "none"
    /\ lock = 0
    /\ it' = [kind |-> "blobs", items |-> into_values(entries), yielded |-> {}]
    /\ UNCHANGED <<entries, tags, temp, live, inners, handles, held, thr, ret,
                   imp, wr, rd, ex, fs, stores, lock, op>>

\* ReadableStore::partial_blobs
partial_blobs_call ==
    /\ it.kind = "none"
    /\ lock = 0
    /\ it' = [kind |-> "partial_blobs", items |-> into_values(entries), yielded |-> {}]
    /\ UNCHANGED <<entries, tags, temp, live, inners, handles, held, thr, ret,
                   imp, wr, rd, ex, fs, stores, lock, op>>

\* ReadableStore::tags
tags_call ==
    /\ it.kind = "none"
    /\ lock = 0
    /\ it' = [kind |-> "tags", items |-> tags_iter, yielded |-> {}]
    /\ UNCHANGED <<entries, tags, temp, live, inners, handles, held, thr, ret,
                   imp, wr, rd, ex, fs, stores, lock, op>>

\* ReadableStore::temp_tags
temp_tags_call ==
    /\ it.kind = "none"
    /\ lock = 0
    /\ it' = [kind |-> "temp_tags", items |-> keys(temp), yielded |-> {}]
    /\ UNCHANGED <<entries, tags, temp, live, inners, handles, held, thr, ret,
                   imp, wr, rd, ex, fs, stores, lock, op>>

\* the slots that are kept when the iterator becomes i
KeptWith(i) ==
    [j \in Slots |->
        IF j \in {entries[h].inner : h \in DOMAIN entries}
                 \cup {e.inner : e \in handles} \cup IterSlots(i)
        THEN inners[j] ELSE NoInner]

\* an iterator that looks its item up in the maps of the store as they are
\* when it is asked for the item
Iterator_next_live(x) ==
    /\ x \in it.items
    /\ LET rest == [it EXCEPT !.items = @ \ {x}]
           there == IF it.kind \in {"blobs", "partial_blobs"}
                    THEN x \in into_values(entries)
                    ELSE IF it.kind = "tags" THEN x \in tags_iter
                    ELSE x \in keys(temp)
       IN /\ it' = [rest EXCEPT !.yielded =
                       IF there THEN @ \cup (Yields(it) \ Yields(rest)) ELSE @]
          /\ inners' = KeptWith(rest)
    /\ UNCHANGED <<entries, tags, temp, live, handles, held, thr, ret, imp, wr,
                   rd, ex, fs, stores, lock, op>>

\* Iterator::next: the next item the iterator owns is taken out of it, and
\* yielded if it passes the filter
Iterator_next(x) ==
    /\ x \in it.items
    /\ LET rest == [it EXCEPT !.items = @ \ {x}]
       IN /\ it' = [rest EXCEPT !.yielded = @ \cup (Yields(it) \ Yields(rest))]
          /\ inners' = KeptWith(rest)
    /\ UNCHANGED <<entries, tags, temp, live, handles, held, thr, ret, imp, wr,
                   rd, ex, fs, stores, lock, op>>

\* the iterator is dropped, and the items it still owns with it
Iterator_drop ==
    /\ it.kind # "none"
    /\ it' = NoIter
    /\ inners' = KeptWith(NoIter)
    /\ UNCHANGED <<entries, tags, temp, live, handles, held, thr, ret, imp, wr,
                   rd, ex, fs, stores, lock, op>>

NextIter ==
    \/ \E b \in Blobs : import_temp_tag(1, b, "Raw")
    \/ import_insert(1)
    \/ import_tag_drop(1)
    \/ \E hashes \in DeleteVecs : delete(hashes)
    \/ \E n \in CallerTagNames, v \in SetTagArgs : set_tag(n, v)
    \/ \E k \in HashAndFormat : TempTagClone(k)
    \/ \E k \in HashAndFormat : TempTagDrop(k)
    \/ blobs_call
    \/ partial_blobs_call
    \/ tags_call
    \/ temp_tags_call
    \/ \E x \in it.items : Iterator_next(x)
    \/ Iterator_drop

SpecIter == Init /\ [][NextIter]_vars

\* ------------------------------------------- export_sync and its callback
\* export_sync by thread 1 with the call of progress as a step of its own:
\* the read guard `state` is held from the lookup to the return, so from
\* "writing" on, and over every call of progress.  What the callback does
\* on the store it does on thread 1, within the export.

\* the thread that runs export_sync and, within it, the callback
ExportThread == 1

\* the for loop: a window is read and written to the file, then
\* progress(offset) is called
export_sync_write(write_ok) ==
    /\ ex.pc = "writing"
    /\ ex.offset < ex.size
    /\ ~wr[entries[ex.hash].inner].locked
    /\ IF ~write_ok
       THEN ex' = [NoExport EXCEPT !.calls = ex.calls] /\ fs' = fs /\ ret' = "Io"
       ELSE /\ fs' = [fs EXCEPT !.file =
                        <<write_at(@[1], [offset |-> ex.offset,
                                          bytes |-> read_data_at(inners[entries[ex.hash].inner].data,
                                                                 ex.offset, Window)])>>]
            /\ ex' = [ex EXCEPT !.pc = "callback", !.calls = Append(@, ex.offset)]
            /\ ret' = ret
    /\ UNCHANGED <<entries, tags, temp, live, inners, handles, held, thr, imp,
                   wr, rd, stores, lock, op, it>>

\* progress(offset) returns, with every call it made on the store returned
progress_return(ok) ==
    /\ ex.pc = "callback"
    /\ op[ExportThread].pc = "idle"
    /\ IF ok
       THEN ex' = [ex EXCEPT !.pc = "writing", !.offset = @ + Window] /\ ret' = ret
       ELSE ex' = [NoExport EXCEPT !.calls = ex.calls] /\ ret' = "Callback"
    /\ UNCHANGED <<entries, tags, temp, live, inners, handles, held, thr, imp,
                   wr, rd, fs, stores, lock, op, it>>

\* RwLock::write on a thread that holds a guard of the lock may panic
\* instead of blocking: the export unwinds and its guard is dropped
progress_panic ==
    /\ ex.pc = "callback"
    /\ op[ExportThread].pc = "idle"
    /\ ex' = [NoExport EXCEPT !.calls = ex.calls]
    /\ ret' = "Panic"
    /\ UNCHANGED <<entries, tags, temp, live, inners, handles, held, thr, imp,
                   wr, rd, fs, stores, lock, op, it>>

\* TempTag::drop of a value a caller holds: on_drop calls self.0.write()
TempTagDrop_call(t, k) ==
    /\ AtRest(t)
    /\ held[k] > 0
    /\ TrackerAlive
    /\ held' = [held EXCEPT ![k] = @ - 1]
    /\ op' = [op EXCEPT ![t] = [pc |-> "waiting", kind |-> "on_drop",
                                entry |-> <<k>>, hashes |-> <<>>,
                                rest |-> <<>>, complete |-> FALSE]]
    /\ UNCHANGED <<entries, tags, temp, live, inners, handles, thr, ret, imp,
                   wr, rd, ex, fs, stores, lock, it>>

\* on_drop, under the lock: state.temp.dec(inner), and the guard is dropped
on_drop_locked(t) ==
    /\ op[t].kind = "on_drop"
    /\ op[t].pc = "locked"
    /\ on_drop(op[t].entry[1])
    /\ lock' = 0
    /\ op' = [op EXCEPT ![t] = NoOp]
    /\ ret' = "Ok"
    /\ UNCHANGED <<entries, tags, live, inners, handles, held, thr, imp, wr,
                   rd, ex, fs, stores, it>>

\* thread 2 imports and clones the TempTag, when the write lock is granted
ImportsByOther ==
    /\ Unlocked
    /\ op[2].pc = "idle"
    /\ \/ \E b \in Blobs : import_temp_tag(2, b, "Raw")
       \/ import_insert(2)
       \/ import_tag_drop(2)
       \/ \E k \in HashAndFormat : TempTagClone(k)

\* export_sync is called on the thread of the export; read_lock() is granted
\* when nobody writes
ExportCalls ==
    /\ lock = 0
    /\ op[ExportThread].pc = "idle"
    /\ \E h \in Hashes, target \in Targets, dirs_ok \in BOOLEAN, create_ok \in BOOLEAN :
          export_sync(h, target, dirs_ok, create_ok)

\* what the callback does on the store while progress(offset) runs
CallbackCalls ==
    /\ ex.pc = "callback"
    /\ \/ \E hashes \in DeleteVecs : delete_call(ExportThread, hashes)
       \/ \E k \in HashAndFormat : TempTagDrop_call(ExportThread, k)

\* what the other thread calls at any time
OtherCalls ==
    \/ \E hashes \in DeleteVecs : delete_call(2, hashes)
    \/ \E k \in HashAndFormat : TempTagDrop_call(2, k)

\* the steps of the thread that holds the write lock
UnderWriteLock ==
    \/ \E t \in Threads : delete_remove(t)
    \/ \E t \in Threads : delete_return(t)
    \/ \E t \in Threads : on_drop_locked(t)

\* the steps of the export that holds the read lock
UnderReadLock ==
    \/ \E write_ok \in BOOLEAN : export_sync_write(write_ok)
    \/ \E ok \in BOOLEAN : progress_return(ok)
    \/ progress_panic
    \/ export_sync_flush

NextCallback ==
    \/ ImportsByOther
    \/ ExportCalls
    \/ CallbackCalls
    \/ OtherCalls
    \/ \E t \in Threads : write_lock(t)
    \/ UnderWriteLock
    \/ UnderReadLock

SpecCallback == Init /\ [][NextCallback]_vars

\* --------------------------------------------------------------- claims
\* the hashes of the vector given to delete
Listed(hashes) == {hashes[i] : i \in DOMAIN hashes}

\* the keys of entries whose entry has hash h
KeysFor(h) == {x \in DOMAIN entries : hash(entries[x]) = h}

\* C1: is_live(h) is true exactly when h is in the live set or temp holds a
\* key (h, fmt) for some format; no tag and no entry makes a hash live.
C1_IsLive ==
    \A h \in Hashes :
        is_live(h) <=> (h \in live \/ \E f \in BlobFormat : <<h, f>> \in keys(temp))

\* C1 witness: a hash that is live through a temp tag alone, next to a hash
\* that is stored and the target of a tag and yet not live.
C1_Witness ==
    \E h, g \in Hashes :
        /\ h \notin live /\ is_live(h)
        /\ g \in DOMAIN entries /\ (\E n \in DOMAIN tags : tags[n][1] = g)
        /\ ~is_live(g)

\* C2: the count temp stores for k is the number of TempTag values for k that
\* exist (held by callers, or created by an import that is running or has
\* returned); the key is absent exactly when there is none, so no drop finds
\* a count of 0.
C2_TempCount ==
    /\ DOMAIN temp \subseteq HashAndFormat
    /\ \A k \in HashAndFormat :
        /\ k \in DOMAIN temp <=> Extant(k) > 0
        /\ k \in DOMAIN temp => temp[k] = Extant(k) /\ temp[k] >= 1

\* C2 witness: a count of 2 that stands for one TempTag returned by an import
\* and one a caller created or cloned.
C2_Witness ==
    \E k \in HashAndFormat :
        /\ k \in DOMAIN temp /\ temp[k] = 2
        /\ held[k] = 1
        /\ \E t \in Threads : thr[t].pc = "done" /\ KeyOf(t) = k

\* C8: the step of import_bytes that returns leaves the hash of the content
\* Complete in entries, listed by blobs() and live; a hash is live as long as
\* a TempTag for it exists; the drop of a TempTag leaves entries alone, and
\* when it was the last one for the hash, the hash is live only through the
\* live set.
C8_InsertStep ==
    \A t \in Threads, h \in Hashes :
        import_insert(t) /\ h = tree_hash(thr[t].bytes) =>
            /\ thr'[t].tag[1] = h
            /\ (entry_status(h))' = "Complete"
            /\ h \in blobs'
            /\ (is_live(h))'
            /\ ret' = "Ok"

\* no TempTag for hash h exists
Untagged(h) == \A f \in BlobFormat : Extant(<<h, f>>) = 0

C8_DropStep ==
    \A k \in HashAndFormat :
        (TempTagDrop(k) \/ \E t \in Threads : import_tag_drop(t) /\ thr[t].tag = k) =>
            /\ entries' = entries /\ inners' = inners
            /\ Untagged(k[1])' => ((is_live(k[1]))' <=> k[1] \in live')

C8_Pinned == \A k \in HashAndFormat : Extant(k) > 0 => is_live(k[1])

C8_ImportPins == []C8_Pinned /\ [][C8_InsertStep /\ C8_DropStep]_vars

\* C8 witness: an import returned, its TempTag and every other one for the
\* hash is dropped, the hash is not in the live set, and the entry is there.
C8_Witness ==
    \E h \in Hashes :
        /\ h \in DOMAIN entries /\ entries[h].complete
        /\ Untagged(h)
        /\ h \notin live
        /\ ~is_live(h)

\* thread t holds the TempTag of an import of content b with format f
Imported(t, b, f) ==
    thr[t].pc \in {"tagged", "done"} /\ thr[t].bytes = b /\ thr[t].tag[2] = f

\* C9: two imports of the same content with the same format, one after the
\* other or at the same time, hold TempTags with the same hash; while both
\* exist and are the only ones for the key the count is 2, and the returning
\* import leaves one key for the hash in entries; the drop of one of two
\* leaves the key and the hash live, the drop of the last removes the key.
C9_TwoTags ==
    \A t1, t2 \in Threads, b \in Blobs, f \in BlobFormat :
        t1 # t2 /\ Imported(t1, b, f) /\ Imported(t2, b, f) =>
            /\ thr[t1].tag = thr[t2].tag
            /\ thr[t1].tag = <<tree_hash(b), f>>
            /\ thr[t1].tag \in DOMAIN temp
            /\ temp[thr[t1].tag] >= 2
            /\ (Holding(thr[t1].tag) = {t1, t2} /\ held[thr[t1].tag] = 0)
                   => temp[thr[t1].tag] = 2
            /\ Cardinality(KeysFor(tree_hash(b))) <= 1

C9_InsertStep ==
    \A t \in Threads, h \in Hashes :
        import_insert(t) /\ h = tree_hash(thr[t].bytes) =>
            Cardinality(KeysFor(h))' = 1

C9_DropStep ==
    \A t \in Threads, k \in HashAndFormat :
        import_tag_drop(t) /\ k = thr[t].tag /\ k \in DOMAIN temp =>
            /\ temp[k] = 2 => k \in DOMAIN temp' /\ temp'[k] = 1 /\ (is_live(k[1]))'
            /\ temp[k] = 1 => k \notin DOMAIN temp'

C9_SameContentTwice == []C9_TwoTags /\ [][C9_InsertStep /\ C9_DropStep]_vars

\* C9 witness: both imports of one content returned, their two TempTags are
\* the only ones for the key, the count is 2 and entries has the one key.
C9_Witness ==
    \E t1, t2 \in Threads, b \in Blobs, f \in BlobFormat :
        /\ t1 # t2
        /\ thr[t1].pc = "done" /\ thr[t2].pc = "done"
        /\ Imported(t1, b, f) /\ Imported(t2, b, f)
        /\ held[<<tree_hash(b), f>>] = 0
        /\ temp[<<tree_hash(b), f>>] = 2
        /\ KeysFor(tree_hash(b)) = {tree_hash(b)}

\* C10: delete removes every listed hash from entries, live, temp-tagged and
\* tagged ones included, does nothing for a listed hash that is absent,
\* returns Ok and leaves tags, temp, live and every other entry as they were.
C10_DeleteStep ==
    \A hashes \in DeleteArgs :
        delete(hashes) =>
            /\ DOMAIN entries' = DOMAIN entries \ Listed(hashes)
            /\ \A h \in DOMAIN entries' :
                /\ entries'[h] = entries[h]
                /\ inners'[entries'[h].inner] = inners[entries[h].inner]
            /\ tags' = tags /\ temp' = temp /\ live' = live
            /\ held' = held /\ thr' = thr
            /\ ret' = "Ok"

C10_Delete == [][C10_DeleteStep]_vars

\* C10 witness: the hash of an import that returned is gone from entries
\* although it is in the live set, temp-tagged and the target of a tag, and
\* the entry of the other hash is still there.
C10_Witness ==
    \E t \in Threads, h, g \in Hashes :
        /\ thr[t].pc = "done" /\ thr[t].tag[1] = h
        /\ h \notin DOMAIN entries
        /\ h \in live /\ contains(temp, h)
        /\ \E n \in DOMAIN tags : tags[n][1] = h
        /\ g # h /\ g \in DOMAIN entries

\* the map holds a complete entry for hash h
HasComplete(h) == h \in DOMAIN entries /\ entries[h].complete

\* C3: insert_complete(e) puts e, marked complete, in the place of
\* entries[e.hash] exactly when entries holds a complete entry for e.hash;
\* otherwise entries, tags, temp, live and the storages stay as they were;
\* it returns Ok either way.
C3_InsertCompleteStep ==
    \A e \in EntryValues, h \in Hashes :
        insert_complete(e) /\ h = hash(e) =>
            /\ HasComplete(h) =>
                /\ DOMAIN entries' = DOMAIN entries
                /\ entries'[h] = [inner |-> e.inner, complete |-> TRUE]
                /\ \A x \in DOMAIN entries \ {h} : entries'[x] = entries[x]
            /\ ~HasComplete(h) => entries' = entries /\ inners' = inners
            /\ tags' = tags /\ temp' = temp /\ live' = live
            /\ ret' = "Ok"

C3_InsertComplete == [][C3_InsertCompleteStep]_vars

\* C3 witness: the map holds, as complete, an entry whose storage is the
\* empty one of get_or_create_partial: insert_complete put it there.
C3_Witness ==
    \E h \in DOMAIN entries :
        /\ entries[h].complete
        /\ h # tree_hash(<<>>)
        /\ inners[entries[h].inner].data = <<>>

\* C4: get_or_create_partial(h, size) leaves entries, tags, temp and live as
\* they were, so entry_status(h) and get(h) answer as before; the entry it
\* returns is partial, has hash h and an empty storage that no entry of the
\* map shares.
C4_GetOrCreatePartialStep ==
    \A h \in Hashes, size \in {0, 2} :
        get_or_create_partial(h, size) =>
            /\ entries' = entries /\ tags' = tags /\ temp' = temp /\ live' = live
            /\ (entry_status(h))' = entry_status(h)
            /\ (get_result(h))' = get_result(h)
            /\ \A x \in DOMAIN entries : inners'[entries[x].inner] = inners[entries[x].inner]
            /\ \E e \in EntryValues :
                /\ handles' = handles \cup {e}
                /\ e \notin handles
                /\ ~is_complete(e)
                /\ (hash(e))' = h
                /\ (current_size(e))' = 0
                /\ inners'[e.inner].data = <<>>
                /\ \A x \in DOMAIN entries' : entries'[x].inner # e.inner
            /\ ret' = "Ok"

C4_GetOrCreatePartial == [][C4_GetOrCreatePartialStep]_vars

\* C4 witness: a caller holds a partial entry with an empty storage for a
\* hash whose complete entry, with its own storage, is in the map.
C4_Witness ==
    \E e \in handles :
        /\ ~e.complete
        /\ inners[e.inner].data = <<>>
        /\ HasComplete(hash(e))
        /\ entries[hash(e)].inner # e.inner
        /\ inners[entries[hash(e)].inner].data # <<>>

\* C5: blobs() and partial_blobs() have no hash in common and together yield
\* the keys of entries; blobs() yields the hashes with status Complete and
\* partial_blobs() those with status Partial.
C5_Iterators ==
    /\ blobs \cap partial_blobs = {}
    /\ blobs \cup partial_blobs = DOMAIN entries
    /\ blobs = {h \in Hashes : entry_status(h) = "Complete"}
    /\ partial_blobs = {h \in Hashes : entry_status(h) = "Partial"}

\* C5 witness: blobs() yields a hash while a caller holds a partial entry for
\* another hash, which neither iterator yields.
C5_Witness ==
    /\ blobs # {}
    /\ \E e \in handles :
        /\ ~is_complete(e)
        /\ hash(e) \notin DOMAIN entries
        /\ hash(e) \notin blobs \cup partial_blobs

\* C6: every key h of entries maps to an entry whose hash() is h.
C6_KeyIsHash == \A h \in DOMAIN entries : hash(entries[h]) = h

\* C6 witness: the map holds both hashes, one through an import and the
\* other through insert_complete.
C6_Witness ==
    /\ DOMAIN entries = Hashes
    /\ \E h, g \in Hashes :
        /\ inners[entries[h].inner].data = <<>> /\ h # tree_hash(<<>>)
        /\ inners[entries[g].inner].data = <<>> /\ g = tree_hash(<<>>)

\* C7: every entry of the map has complete = true: entry_status and
\* get_possibly_partial never answer Partial and partial_blobs() is empty.
C7_NoPartialInMap ==
    /\ \A h \in DOMAIN entries : entries[h].complete
    /\ \A h \in Hashes : entry_status(h) # "Partial" /\ get_possibly_partial(h) # "Partial"
    /\ partial_blobs = {}

\* C7 witness: the storage of a partial entry that a caller still holds is
\* in the map, and the entry of the map is complete.
C7_Witness ==
    \E e \in handles :
        /\ ~e.complete
        /\ hash(e) \in DOMAIN entries
        /\ entries[hash(e)] = [inner |-> e.inner, complete |-> TRUE]

\* C11: set_tag(n, Some(v)) makes tags[n] = v, also over an older value;
\* set_tag(n, None) removes n and is Ok when n is absent, so that tags()
\* lists no pair for n afterwards; every other tag, entries, temp and live
\* stay as they were.
C11_SetTagStep ==
    \A n \in CallerTagNames, v \in SetTagArgs :
        set_tag(n, v) =>
            /\ ret' = "Ok"
            /\ v # <<>> => n \in DOMAIN tags' /\ tags'[n] = v[1]
            /\ v = <<>> =>
                /\ n \notin DOMAIN tags'
                /\ \A p \in tags_iter' : p[1] # n
            /\ DOMAIN tags' \ {n} = DOMAIN tags \ {n}
            /\ \A m \in DOMAIN tags \ {n} : tags'[m] = tags[m]
            /\ UNCHANGED <<entries, temp, live>>

C11_SetTag == [][C11_SetTagStep]_vars

\* C11 witness: "auto-1-1" is a tag and "auto-1" is not: create_tag made the
\* former when the latter was a key, and set_tag(None) removed the latter and
\* left the former; "n" has a value of its own.
C11_Witness ==
    /\ "auto-1-1" \in DOMAIN tags
    /\ "auto-1" \notin DOMAIN tags
    /\ "n" \in DOMAIN tags
    /\ tags["n"] # tags["auto-1-1"]

\* C12: create_tag(hf) returns a name that was no key of tags before the
\* call, whatever the clock says; it adds the pair (name, hf) and nothing
\* else, so no tag is overwritten or removed and the map has one more key.
C12_CreateTagStep ==
    \A hf \in TagValues, time \in ClockValues :
        create_tag(hf, time) =>
            /\ ret' \notin DOMAIN tags
            /\ DOMAIN tags' = DOMAIN tags \cup {ret'}
            /\ tags'[ret'] = hf
            /\ \A m \in DOMAIN tags : tags'[m] = tags[m]
            /\ Cardinality(DOMAIN tags') = Cardinality(DOMAIN tags) + 1
            /\ UNCHANGED <<entries, temp, live>>

C12_CreateTag == [][C12_CreateTagStep]_vars

\* C12 witness: three calls of create_tag saw the same clock value and their
\* three names are keys, with the values the calls were given.
C12_Witness ==
    /\ DOMAIN tags = {"auto-2", "auto-2-1", "auto-2-2"}
    /\ tags["auto-2"] # tags["auto-2-1"]

\* C13: available_ranges() of a complete entry is all chunks; that of a
\* partial entry is the verified prefix [0, current_size()) and nothing
\* more, so a partial entry nothing was written to reports no chunk.
C13_AvailableRanges ==
    \A e \in handles \cup {entries[h] : h \in DOMAIN entries} :
        /\ is_complete(e) => \A c \in ChunkNums : c \in available_ranges(e)
        /\ ~is_complete(e) =>
               \A c \in ChunkNums : c \in available_ranges(e) <=> c < current_size(e)

\* the events of the log are in the order Found, CopyProgress*, Size,
\* OutboardProgress, OutboardDone
InOrder(log) ==
    \A i \in 1..Len(log) :
        /\ log[i] = "Found" <=> i = 1
        /\ log[i] \in {"CopyProgress", "Size"} => log[i - 1] \in {"Found", "CopyProgress"}
        /\ log[i] = "OutboardProgress" => log[i - 1] = "Size"
        /\ log[i] = "OutboardDone" => log[i - 1] = "OutboardProgress"

\* how often ev is in the log
Count(log, ev) == Cardinality({i \in 1..Len(log) : log[i] = ev})

\* the sender has accepted the event ev of the import of thread t
Accepted(t, ev) ==
    /\ Count(imp[t].log, ev) > 0
    /\ ~(imp[t].err = "ProgressClosed" /\ imp[t].log[Len(imp[t].log)] = ev)

\* C14: the progress events with the id of an import_file or import_stream
\* run come in the order Found, CopyProgress*, Size, OutboardProgress,
\* OutboardDone; a run that succeeds has emitted exactly one Found, Size,
\* OutboardProgress and OutboardDone.
C14_Order ==
    \A t \in Threads :
        /\ InOrder(imp[t].log)
        /\ imp[t].pc \in {"hashed", "tagged", "returned"} =>
              \A ev \in {"Found", "Size", "OutboardProgress", "OutboardDone"} :
                  Count(imp[t].log, ev) = 1 /\ Accepted(t, ev)

\* C14: the entry is inserted only after OutboardDone was accepted.
C14_InsertStep ==
    \A t \in Threads :
        import_bytes_sync_insert(t) => Accepted(t, "OutboardDone")

C14_ProgressOrder == []C14_Order /\ [][C14_InsertStep]_vars

\* C14 witness: an import_stream of two chunks has returned: its log is
\* Found, CopyProgress, CopyProgress, Size, OutboardProgress, OutboardDone
\* and its entry is in the map.
C14_Witness ==
    /\ imp[1].pc = "returned"
    /\ imp[1].kind = "stream"
    /\ Count(imp[1].log, "CopyProgress") = 2
    /\ tree_hash(imp[1].bytes) \in DOMAIN entries

\* C15: a try_send of CopyProgress that fails is ignored: an import_file or
\* import_stream returns an error only when a read failed or a blocking
\* emission was rejected.
C15_BestEffort ==
    \A t \in Threads :
        imp[t].pc = "failed" =>
            \/ imp[t].err = "Io"
            \/ /\ imp[t].err = "ProgressClosed"
               /\ imp[t].log[Len(imp[t].log)] # "CopyProgress"

\* C16: an import that returns an error has changed nothing: the only steps
\* of an import that change entries, tags, temp or live are temp_tag and the
\* insert that follows it, and an import that has made its TempTag goes on
\* to the insert and returns Ok.
C16_TagInHand ==
    \A t \in Threads : imp[t].tag # <<>> => imp[t].pc = "tagged"

C16_Step ==
    \A t \in Threads :
        imp'[t] # imp[t] =>
            /\ imp[t].pc = "tagged" => imp'[t].pc = "returned"
            /\ imp[t].pc # "tagged" /\ imp'[t].pc # "tagged" =>
                  UNCHANGED <<entries, tags, temp, live, inners>>

C16_ErrorKeepsState == []C16_TagInHand /\ [][C16_Step]_vars

\* C16 witness: an import_stream has failed on its second item, after an
\* import_file had put an entry into the map that the caller still pins.
C16_Witness ==
    /\ imp[1].pc = "failed"
    /\ imp[1].err = "Io"
    /\ imp[1].kind = "stream"
    /\ Count(imp[1].log, "CopyProgress") = 1
    /\ entries # <<>>
    /\ temp # <<>>

\* p is a prefix of q
IsPrefix(p, q) == Len(p) <= Len(q) /\ SubSeq(q, 1, Len(p)) = p

\* C17: when a write_batch through an Entry returns Ok, a read through any
\* Entry that shares the storage gives the bytes of the batch at their
\* offsets, and the size has grown to hold them.
C17_ReturnStep ==
    \A i \in Slots :
        write_batch_return(i) =>
            \A e \in Readable, leaf \in {wr[i].batch[j] : j \in 1..Len(wr[i].batch)} :
                e.inner = i =>
                    /\ read_data_at(inners'[e.inner].data, leaf.offset, Len(leaf.bytes))
                          = leaf.bytes
                    /\ current_size(e)' >= leaf.offset + Len(leaf.bytes)

\* C17: what was written stays: the bytes an Entry gives are extended, never
\* changed, for as long as a caller holds the Entry.
C17_KeepStep ==
    \A e \in handles :
        e \in handles' =>
            /\ hash(e)' = hash(e)
            /\ IsPrefix(inners[e.inner].data, inners'[e.inner].data)
               \/ wr'[e.inner].locked

\* C17: no read sees the middle of a batch: every batch carries a whole
\* blob, and a read of the whole range gives nothing or a whole blob.
C17_WholeBatch == rd \in Blobs

C17_SharedStorage == []C17_WholeBatch /\ [][C17_ReturnStep /\ C17_KeepStep]_vars

\* C17 witness: a caller holds a partial Entry whose storage is also that of
\* the complete Entry of the map; two bytes were written through the partial
\* one, the write_batch has returned Ok and the read that followed gave them.
C17_Witness ==
    \E e \in handles :
        /\ ~e.complete
        /\ hash(e) \in DOMAIN entries
        /\ entries[hash(e)] = Entry(e.inner, TRUE)
        /\ ~wr[e.inner].locked
        /\ ret = "Ok"
        /\ rd = <<1, 0>>
        /\ rd = inners[e.inner].data

\* what a caller reads off an Entry: hash(), size() and the bytes of
\* data_reader()
Reading(e) == <<hash(e), size_of(e), data_reader(e)>>

\* C18: an Entry a caller got before delete([h]) reads the same after it,
\* while get(h) and entry_status(h) say the hash is absent.
C18_DeleteStep ==
    \A hashes \in DeleteArgs :
        delete(hashes) =>
            /\ \A e \in handles : e \in handles' /\ Reading(e)' = Reading(e)
            /\ \A h \in Listed(hashes) :
                  get_result(h)' = <<>> /\ entry_status(h)' = "NotFound"

\* C18: an Entry a caller got before an import or insert_complete replaced
\* the value of the map reads the same after it.
C18_ReplaceStep ==
    /\ \A t \in Threads :
          import_insert(t) => \A e \in handles : e \in handles' /\ Reading(e)' = Reading(e)
    /\ \A x \in EntryValues :
          insert_complete(x) => \A e \in handles : e \in handles' /\ Reading(e)' = Reading(e)

C18_EntryOutlivesMap == [][C18_DeleteStep /\ C18_ReplaceStep]_vars

\* C18 witness: a caller holds the complete Entry of a two-byte blob that
\* get gave, and the map has no entry for its hash any more.
C18_Witness ==
    \E e \in handles :
        /\ e.complete
        /\ data_reader(e) = <<1, 0>>
        /\ hash(e) = tree_hash(<<1, 0>>)
        /\ get_result(hash(e)) = <<>>
        /\ entry_status(hash(e)) = "NotFound"

\* export has failed before the file at the target was created or
\* truncated, before the callback was called and without a change of the
\* store
Untouched ==
    /\ ex' = NoExport
    /\ fs'.file = fs.file
    /\ UNCHANGED <<entries, tags, temp, live, inners, handles, held>>

\* C19 as stated: export fails with InvalidInput when the target is not
\* absolute, before any access to the file system or the store, and with
\* NotFound when the target is absolute and the hash is no key of entries;
\* either way no file is created or truncated, the callback is not called
\* and the store is unchanged.
C19_AsStatedStep ==
    \A h \in Hashes, target \in Targets, dirs_ok \in BOOLEAN, create_ok \in BOOLEAN :
        export_sync(h, target, dirs_ok, create_ok) =>
            /\ ~is_absolute(target) =>
                  ret' = "InvalidInput" /\ fs' = fs /\ Untouched
            /\ is_absolute(target) /\ h \notin DOMAIN entries =>
                  ret' = "NotFound" /\ Untouched

C19_AsStated == [][C19_AsStatedStep]_vars

\* C19, amended: export fails with InvalidInput when the target is not
\* absolute or has no parent, before any access to the file system or the
\* store; when the directories of an absolute target with a parent were
\* created and the hash is no key of entries it fails with NotFound; either
\* way no file is created or truncated, the callback is not called and the
\* store is unchanged.
C19_ExportStep ==
    \A h \in Hashes, target \in Targets, dirs_ok \in BOOLEAN, create_ok \in BOOLEAN :
        export_sync(h, target, dirs_ok, create_ok) =>
            /\ ~is_absolute(target) \/ parent(target) = <<>> =>
                  ret' = "InvalidInput" /\ fs' = fs /\ Untouched
            /\ is_absolute(target) /\ parent(target) # <<>> /\ dirs_ok
               /\ h \notin DOMAIN entries =>
                  ret' = "NotFound" /\ Untouched

C19_Export == [][C19_ExportStep]_vars

\* C19 witness: an export has answered NotFound for a hash that was deleted
\* after an earlier export had written its two bytes to the target: the file
\* is still whole and the callback was not called.
C19_Witness ==
    /\ ret = "NotFound"
    /\ ex = NoExport
    /\ fs.file = << <<1, 0>> >>
    /\ tree_hash(<<1, 0>>) \notin DOMAIN entries

\* C20: once every Store is dropped, the clone and the drop of a TempTag
\* that is left return without touching entries, tags, temp or live.
C20_TagStep ==
    \A k \in HashAndFormat :
        stores = 0 /\ (TempTagClone(k) \/ TempTagDrop(k)) =>
            /\ ret' = "Ok"
            /\ UNCHANGED <<entries, tags, temp, live, inners, stores, lock, op, it>>

\* C20: a TempTag does not keep the state of the store: when no Store is
\* left the maps are gone, whatever TempTags exist.
C20_StateGone ==
    stores = 0 => entries = <<>> /\ tags = <<>> /\ temp = <<>> /\ live = {}

StorageReading(i) ==
    <<Len(inners[i].data), Len(inners[i].data), Len(outboard_of(inners[i].data)),
      read_data_at(inners[i].data, 0, BlobLen),
      read_outboard_at(inners[i].data, 0, BlobLen)>>

\* C21: a write_batch whose content fails verification returns an error and
\* leaves the storage as it was: sizes and readable bytes are the same, and
\* the lock is free again.
C21_RejectStep ==
    \A e \in handles, size \in Sizes, batch \in Batches :
        ~Verified(hash(e), size, batch) /\ write_batch(e, size, batch) =>
            /\ ret' = "Verification"
            /\ \A i \in Slots : StorageReading(i)' = StorageReading(i)
            /\ wr' = wr

\* C21: bytes that were not verified are never exposed: what a storage
\* holds is always a prefix of the content its hash stands for.
C21_OnlyVerified ==
    \A i \in Slots :
        inners[i] # NoInner => IsPrefix(inners[i].data, Content(inners[i].hash))

Elems(hashes) == {hashes[j] : j \in 1..Len(hashes)}

\* C22: what insert_complete does to the map is what it does in one piece
\* on the map as it is when it inserts: the entry is replaced if the map
\* has a complete one for the hash, and no entry comes to be otherwise.
C22_InsertStep ==
    \A t \in Threads :
        insert_complete_insert(t) =>
            LET e == op[t].entry[1]
                h == op[t].hashes[1]
            IN /\ entries' = IF h \in DOMAIN entries /\ entries[h].complete
                             THEN insert(entries, h, [e EXCEPT !.complete = TRUE])
                             ELSE entries
               /\ DOMAIN entries' = DOMAIN entries

\* C22: when delete returns, no hash of its vector has an entry.
C22_DeleteStep ==
    \A t \in Threads :
        delete_return(t) => Elems(op[t].hashes) \cap DOMAIN entries' = {}

\* C22: while a thread holds the write lock, the map changes by its steps only.
C22_HolderStep ==
    lock # 0 /\ entries' # entries => op'[lock] # op[lock]

\* C22: the lock is held by the one thread that is under it, and what
\* insert_complete has found by its check is true of the map until it inserts.
C22_CheckStands ==
    \A t \in Threads :
        /\ lock = t <=> op[t].pc \in {"locked", "checked"}
        /\ op[t].pc = "checked" =>
              op[t].complete = (/\ op[t].hashes[1] \in DOMAIN entries
                                /\ entries[op[t].hashes[1]].complete)

C22_Atomic ==
    []C22_CheckStands /\ [][C22_InsertStep /\ C22_DeleteStep /\ C22_HolderStep]_vars

\* C22 witness: insert_complete has found a complete entry and is about to
\* replace it, while a delete of the same hash waits for the write lock.
C22_Witness ==
    \E t \in Threads, u \in Threads :
        /\ op[t].kind = "insert_complete"
        /\ op[t].pc = "checked"
        /\ op[t].complete
        /\ op[u].kind = "delete"
        /\ op[u].pc = "waiting"
        /\ op[t].hashes[1] \in Elems(op[u].hashes)

\* all that an iterator gives from its call to its end: what it has yielded
\* and what it has still to yield
Total(i) == i.yielded \cup Yields(i)

\* C23: an iterator is a snapshot.  What it gives in all is what the call
\* would have given when it was made, and no step of the store or of the
\* iteration after the call changes that.
C23_SnapshotStep ==
    /\ blobs_call => Total(it') = blobs
    /\ partial_blobs_call => Total(it') = partial_blobs
    /\ tags_call => Total(it') = tags_iter
    /\ temp_tags_call => Total(it') = keys(temp)
    /\ it.kind # "none" /\ it'.kind # "none" => Total(it)' = Total(it)

\* C23: the store lock is free while an iterator is held
C23_NoLock == it.kind # "none" => Unlocked

C23_Snapshot == []C23_NoLock /\ [][C23_SnapshotStep]_vars

\* C23 witness: an iterator of blobs() has yielded a hash and has one more to
\* yield, and the map has no entry any more for either.
C23_Witness ==
    /\ it.kind = "blobs"
    /\ it.yielded # {}
    /\ Yields(it) # {}
    /\ blobs = {}

\* the TempTag of the import that thread t runs or has returned from is
\* counted in temp, and its hash is live
Registered(t) ==
    /\ KeyOf(t) \in DOMAIN temp
    /\ temp[KeyOf(t)] >= Cardinality(Holding(KeyOf(t)))
    /\ temp[KeyOf(t)] >= 1
    /\ is_live(KeyOf(t)[1])

\* C24: an import whose TempTag is not dropped yet has it counted in temp,
\* and the hash is live, whatever other threads do meanwhile: also when
\* they drop their TempTags of the same content, delete or clear_live.
C24_TagCounted ==
    \A t \in Threads : thr[t].pc \in {"tagged", "done"} => Registered(t)

\* C24: the TempTag is registered before the entry is inserted: the insert
\* of an import is made with the hash live already, and leaves it so.
C24_InsertStep ==
    \A t \in Threads :
        import_insert(t) =>
            /\ Registered(t)
            /\ Registered(t)'
            /\ KeyOf(t)[1] \in DOMAIN entries'

\* C24: the map gets an entry it had none for only with the hash live
C24_NoWindow ==
    \A h \in Hashes :
        h \notin DOMAIN entries /\ h \in DOMAIN entries' => is_live(h) /\ (is_live(h))'

C24_PinnedFromInsert == []C24_TagCounted /\ [][C24_InsertStep /\ C24_NoWindow]_vars

\* C24 witness: an import has come back and nothing but its one TempTag
\* pins the entry it inserted; every other thread is out of its import.
C24_Witness ==
    \E t \in Threads :
        /\ thr[t].pc = "done"
        /\ KeyOf(t)[1] \in DOMAIN entries
        /\ KeyOf(t)[1] \notin live
        /\ temp[KeyOf(t)] = 1
        /\ Extant(KeyOf(t)) = 1
        /\ \A u \in Threads \ {t} : thr[u].pc = "idle"
        /\ is_live(KeyOf(t)[1])

\* C25: every entry of the map that is flagged complete holds the whole
\* blob: what is read through it is the content its hash stands for, and
\* size() is the length of that content.
C25_WholeBlob ==
    \A h \in DOMAIN entries :
        entries[h].complete =>
            /\ data_reader(entries[h]) = Content(h)
            /\ size_of(entries[h]) = <<Len(Content(h)), TRUE>>

\* C26: export never deadlocks the store.  Whenever a thread waits for the
\* store lock, the lock can be granted to a waiting thread or the thread
\* that holds it (the writer, or the export that reads) can take its next
\* step: also when the callback of the export is what waits.
C26_NoDeadlock ==
    (\E t \in Threads : op[t].pc = "waiting") =>
        ENABLED ((\E t \in Threads : write_lock(t)) \/ UnderWriteLock \/ UnderReadLock)

====
